---- MODULE Spec2Model ----
(***************************************************************************)
(* A model of the TinyInfiniTensor computation graph: GraphObj (tensors,   *)
(* operators, edges), its topological sort, shape inference, peephole      *)
(* optimizer and static memory planning over the pooled Allocator.         *)
(*                                                                         *)
(* Tensors and operators are objects identified by small integers; the     *)
(* graph's lists graph.tensors and graph.ops hold these identities.  An    *)
(* object that a rewrite removes from the graph keeps its record (a caller *)
(* may still hold a reference to it), but is no longer in the lists.       *)
(***************************************************************************)
EXTENDS Integers, Sequences, FiniteSets, TLC

\* ------------------------------------------------------------------ bounds
\* Tensors ever created in one graph (graph inputs and operator outputs).
MaxTensors == 4
\* Operators ever created in one graph.
MaxOps == 3
\* Tensors ever created in one graph whose operators take caller-supplied outputs.
MaxOutTensors == 3
\* Width of size_t in the model, in bits (the arithmetic wraps at 2^SizeBits).
SizeBits == 16

\* ------------------------------------------------------- program constants
\* alignment = sizeof(uint64_t)
Alignment == 8
\* A null Operator reference (an empty source, an expired weak reference).
NoOp == 0

\* Shapes a caller gives to add_tensor.
Shapes == {<<2, 3>>}
\* Shapes a caller gives to add_tensor / setShape where shapes are changed.
ShapesOut == {<<2, 3>>, <<3, 2>>}
\* Element sizes in bytes of the data types a caller uses (Float32, the default).
DTypeSizes == {4}

VARIABLES
    tensors,    \* graph.tensors: sequence of tensor identities
    ops,        \* graph.ops: sequence of operator identities
    tensorObj,  \* tensor identity -> its fields
    opObj,      \* operator identity -> its fields
    sorted,     \* graph.sorted
    allocator,  \* graph.allocator: used, peak, free_blocks, ptr
    pc,         \* position inside optimize(): "idle" when no call is running
    refined,    \* optimize()'s local flag
    last,       \* the public call that completed last, and whether it succeeded
    pre,        \* the graph as it was when the running/last optimize() was called
    calls       \* the calls a client made on the Allocator itself, with their results

vars == <<tensors, ops, tensorObj, opObj, sorted, allocator, pc, refined, last, pre,
          calls>>

\* --------------------------------------------------------------- sequences
SeqToSet(s) == {s[i] : i \in DOMAIN s}

Contains(s, x) == \E i \in DOMAIN s : s[i] = x

\* Index of the first occurrence of x in s (std::find), 0 when absent.
IndexOf(s, x) ==
    IF Contains(s, x) THEN CHOOSE i \in DOMAIN s : s[i] = x /\ \A j \in 1..(i - 1) : s[j] # x
    ELSE 0

\* removeOperator / removeTensor that finds the element and does not erase it.
RemoveFirstKept(s, x) == s

\* std::find followed by erase: removes the first occurrence only.
RemoveFirst(s, x) ==
    LET i == IndexOf(s, x)
    IN  IF i = 0 THEN s ELSE SubSeq(s, 1, i - 1) \o SubSeq(s, i + 1, Len(s))

\* removeTarget that erases nothing.
RemoveAllKept(s, x) == s

\* Erase every element equal to x.
RemoveAll(s, x) == SelectSeq(s, LAMBDA y : y # x)

\* Replace every occurrence of old in s by new.
ReplaceAll(s, old, new) == [i \in DOMAIN s |-> IF s[i] = old THEN new ELSE s[i]]

RECURSIVE Product(_)
Product(s) == IF s = <<>> THEN 1 ELSE Head(s) * Product(Tail(s))

\* All permutations of 0..n-1, as sequences of length n.
Perms(n) == {p \in [1..n -> 0..(n - 1)] : \A i, j \in 1..n : i # j => p[i] # p[j]}

\* ----------------------------------------------------------------- tensors
\* TensorObj::getBytes: _size * dtype.getSize(), _size the product of the shape.
getBytes(t) == Product(tensorObj[t].shape) * tensorObj[t].dsize

getSource(t) == tensorObj[t].source

getTargets(t) == tensorObj[t].targets

\* A tensor constructed from scratch: fresh fuid, no source, no targets, no data.
NewTensor(id, shape, dsize) ==
    [shape |-> shape, dsize |-> dsize, fuid |-> id, source |-> NoOp,
     targets |-> <<>>, data |-> <<>>]

\* A broadcast that keeps the smaller of two dimensions.
BroadcastDimMin(dimA, dimB) == IF dimA <= dimB THEN dimA ELSE dimB

\* ----------------------------------------------------------- shape utilities
\* One aligned pair of infer_broadcast; 0 stands for IT_TODO_HALT().
BroadcastDim(dimA, dimB) ==
    IF dimA = dimB THEN dimA
    ELSE IF dimA = 1 THEN dimB
    ELSE IF dimB = 1 THEN dimA
    ELSE 0

Max(a, b) == IF a >= b THEN a ELSE b

\* infer_broadcast(A, B): right-aligned, a missing leading axis reads as 1.
\* Position j of the result is the code's out[maxRank - 1 - i], i = maxRank - j.
infer_broadcast(A, B) ==
    LET rankA == Len(A)
        rankB == Len(B)
        maxRank == Max(rankA, rankB)
    IN  [j \in 1..maxRank |->
            LET i == maxRank - j
                dimA == IF i < rankA THEN A[rankA - i] ELSE 1
                dimB == IF i < rankB THEN B[rankB - i] ELSE 1
            IN  BroadcastDim(dimA, dimB)]

\* infer_broadcast returns (no pair halts).
BroadcastOK(A, B) == \A j \in DOMAIN infer_broadcast(A, B) : infer_broadcast(A, B)[j] # 0

\* get_real_axis: the two assertions, then the mapping of a negative axis.
RealAxisOK(axis, rank) == rank >= 1 /\ axis >= -rank /\ axis <= rank - 1

get_real_axis(axis, rank) == IF axis < 0 THEN rank + axis ELSE axis

\* ------------------------------------------------------ operator contracts
\* inferShape results: <<>> when inference fails (an assertion fires), else the
\* one-element list of output shapes.

\* MatmulObj::inferShape on input shapes shapeA, shapeB (ranks >= 2).
MatmulInferShape(transA, transB, shapeA, shapeB) ==
    LET rankA == Len(shapeA)
        rankB == Len(shapeB)
        currnerK_A == IF transA THEN shapeA[rankA - 1] ELSE shapeA[rankA]
        currentM == IF transA THEN shapeA[rankA] ELSE shapeA[rankA - 1]
        currnerK_B == IF transB THEN shapeB[rankB] ELSE shapeB[rankB - 1]
        currentN == IF transB THEN shapeB[rankB - 1] ELSE shapeB[rankB]
        batchA == SubSeq(shapeA, 1, rankA - 2)
        batchB == SubSeq(shapeB, 1, rankB - 2)
    IN  IF currnerK_A # currnerK_B THEN <<>>
        ELSE IF ~BroadcastOK(batchA, batchB) THEN <<>>
        ELSE <<infer_broadcast(batchA, batchB) \o <<currentM, currentN>>>>

RECURSIVE SumAxis(_, _)
SumAxis(shapes, j) ==
    IF shapes = <<>> THEN 0 ELSE Head(shapes)[j] + SumAxis(Tail(shapes), j)

\* A Concat inference that never compares the inputs' other axes.
ConcatInferShapeUnchecked(dim, shapes) ==
    IF \E i \in 2..Len(shapes) : Len(shapes[i]) # Len(shapes[1]) THEN <<>>
    ELSE <<[j \in 1..Len(shapes[1]) |->
              IF j = dim + 1 THEN SumAxis(shapes, j) ELSE shapes[1][j]]>>

\* ConcatObj::inferShape on the list of input shapes; dim is 0-based.
ConcatInferShape(dim, shapes) ==
    LET dims == shapes[1]
        rank == Len(dims)
    IN  IF \E i \in 2..Len(shapes) : Len(shapes[i]) # rank THEN <<>>
        ELSE IF \E i \in 2..Len(shapes) : \E j \in 1..rank :
                    j # dim + 1 /\ shapes[i][j] # dims[j] THEN <<>>
        ELSE <<[j \in 1..rank |-> IF j = dim + 1 THEN SumAxis(shapes, j) ELSE dims[j]]>>

\* Transpose: out[i] = input[perm[i]] for a permutation of the input's axes.
TransposeInferShape(perm, shape) ==
    IF Len(perm) # Len(shape) THEN <<>>
    ELSE <<[i \in 1..Len(shape) |-> shape[perm[i] + 1]]>>

\* OperatorObj::inferShape() of operator record o on the current input shapes.
InferShape(o, tobj) ==
    CASE o.kind = "Transpose" -> TransposeInferShape(o.perm, tobj[o.inputs[1]].shape)
      [] o.kind = "MatMul" ->
            MatmulInferShape(o.transA, o.transB,
                             tobj[o.inputs[1]].shape, tobj[o.inputs[2]].shape)
      [] o.kind = "Concat" ->
            ConcatInferShape(o.dim, [i \in DOMAIN o.inputs |-> tobj[o.inputs[i]].shape])

\* A freshly constructed operator: no edges yet.
NewOp(kind, inputs, outputs, perm, transA, transB, dim) ==
    [kind |-> kind, inputs |-> inputs, outputs |-> outputs,
     predecessors |-> {}, successors |-> {},
     perm |-> perm, transA |-> transA, transB |-> transB, dim |-> dim]

\* ------------------------------------------------------------ construction
\* Identities of the next tensor / operator object to be created.
NextTensorId == Cardinality(DOMAIN tensorObj) + 1

NextOpId == Cardinality(DOMAIN opObj) + 1

\* How many times x occurs in s.
Count(s, x) == Cardinality({i \in DOMAIN s : s[i] = x})

RECURSIVE Repeat(_, _)
Repeat(x, n) == IF n = 0 THEN <<>> ELSE <<x>> \o Repeat(x, n - 1)

\* addOperatorAndConnect that never finds a source.
InputSourcesNone(tobj, ins) == {}

\* The operators that produce the inputs ins: `if (auto pred = input->getSource())`.
InputSources(tobj, ins) == {tobj[t].source : t \in ins} \ {NoOp}

\* An addOperatorAndConnect that leaves the flag as it is.
KeepSorted(flag) == flag

\* addOperatorAndConnect's first statement, `sorted = false`: the value the
\* flag gets.
ClearSorted(flag) == FALSE

\* GraphObj::addOperatorAndConnect(op) on the objects tobj/oobj, op being the
\* new operator id with record rec.  Returns the updated objects.
\*  loop 1: every input gets op as a target; the input's source, when there is
\*          one, becomes a predecessor of op and gets op as a successor;
\*  loop 2: every output gets op as its source; every operator already
\*          registered as a target of the output becomes a successor of op.
addOperatorAndConnect(tobj, oobj, op, rec) ==
    LET ins == SeqToSet(rec.inputs)
        outs == SeqToSet(rec.outputs)
        tobj1 == [t \in DOMAIN tobj |->
                    IF t \in ins
                    THEN [tobj[t] EXCEPT !.targets = @ \o Repeat(op, Count(rec.inputs, t))]
                    ELSE tobj[t]]
        preds == InputSources(tobj, ins)
        oobj0 == oobj @@ (op :> [rec EXCEPT !.predecessors = preds])
        oobj1 == [o \in DOMAIN oobj0 |->
                    IF o \in preds THEN [oobj0[o] EXCEPT !.successors = @ \cup {op}]
                    ELSE oobj0[o]]
        tobj2 == [t \in DOMAIN tobj1 |->
                    IF t \in outs THEN [tobj1[t] EXCEPT !.source = op] ELSE tobj1[t]]
        succs == UNION {SeqToSet(tobj1[t].targets) : t \in outs}
        oobj2 == [o \in DOMAIN oobj1 |->
                    IF o \in succs THEN [oobj1[o] EXCEPT !.predecessors = @ \cup {op}]
                    ELSE oobj1[o]]
        oobj3 == [oobj2 EXCEPT ![op].successors = @ \cup succs]
    IN  [t |-> tobj2, o |-> oobj3]

NoPre == [set |-> FALSE]

\* The graph as it is now, kept for comparison with the state a call leaves.
Snapshot ==
    [set |-> TRUE, tensors |-> tensors, ops |-> ops,
     tensorObj |-> tensorObj, opObj |-> opObj]

Done(name, ok) == [op |-> name, ok |-> ok]

\* GraphObj::addTensor(Shape dim, DataType dtype)
AddTensor(cap, shape, dsize) ==
    /\ pc = "idle"
    /\ NextTensorId <= cap
    /\ tensors' = Append(tensors, NextTensorId)
    /\ tensorObj' = tensorObj @@ (NextTensorId :> NewTensor(NextTensorId, shape, dsize))
    /\ last' = Done("add_tensor", TRUE)
    /\ pre' = NoPre
    /\ UNCHANGED <<ops, opObj, sorted, allocator, pc, refined, calls>>

\* GraphObj::addTensor(const Tensor &tensor): the tensor's runtime is the
\* graph's (there is one runtime), so the assertion holds and the reference is
\* appended to tensors, whether or not the graph holds that tensor already.
AddExistingTensor(cap, t) ==
    /\ pc = "idle"
    /\ Len(tensors) < cap
    /\ tensors' = Append(tensors, t)
    /\ last' = Done("add_tensor_existing", TRUE)
    /\ pre' = NoPre
    /\ UNCHANGED <<ops, tensorObj, opObj, sorted, allocator, pc, refined, calls>>

\* GraphObj::addOp<T>(args...): the constructor runs checkValid(graph), which
\* infers the output shape and creates the output tensor in the graph; then
\* addOperatorAndConnect.  A failed inference throws and adds nothing.
addOp(cap, rec0) ==
    /\ pc = "idle"
    /\ NextOpId <= MaxOps
    /\ NextTensorId <= cap
    /\ InferShape(rec0, tensorObj) # <<>>
    /\ LET out == NextTensorId
           op == NextOpId
           shape == InferShape(rec0, tensorObj)[1]
           tobj0 == tensorObj @@
                        (out :> NewTensor(out, shape, tensorObj[rec0.inputs[1]].dsize))
           rec == [rec0 EXCEPT !.outputs = <<out>>]
           c == addOperatorAndConnect(tobj0, opObj, op, rec)
       IN  /\ tensors' = Append(tensors, out)
           /\ ops' = Append(ops, op)
           /\ tensorObj' = c.t
           /\ opObj' = c.o
    /\ sorted' = ClearSorted(sorted)
    /\ last' = Done("add_op", TRUE)
    /\ pre' = NoPre
    /\ UNCHANGED <<allocator, pc, refined, calls>>

\* addOp<TransposeObj>(input, nullptr, perm)
AddTranspose(cap) ==
    \E t \in SeqToSet(tensors) : \E perm \in Perms(Len(tensorObj[t].shape)) :
        addOp(cap, NewOp("Transpose", <<t>>, <<>>, perm, FALSE, FALSE, 0))

\* addOp<MatmulObj>(A, B, nullptr, transA, transB)
AddMatmul(cap) ==
    \E A, B \in SeqToSet(tensors) : \E transA, transB \in BOOLEAN :
        addOp(cap, NewOp("MatMul", <<A, B>>, <<>>, <<>>, transA, transB, 0))

\* Inputs of one Concat.
MaxConcatInputs == 2

\* addOp<ConcatObj>(inputs, nullptr, dim): dim is normalized by get_real_axis
\* against inputs[0]'s rank before checkValid.
AddConcat(cap) ==
    \E n \in 1..MaxConcatInputs : \E ins \in [1..n -> SeqToSet(tensors)] :
        LET rank == Len(tensorObj[ins[1]].shape)
        IN  \E dim \in (-rank)..(rank - 1) :
                /\ RealAxisOK(dim, rank)
                /\ addOp(cap, NewOp("Concat", ins, <<>>, <<>>, FALSE, FALSE,
                               get_real_axis(dim, rank)))

\* GraphObj::addOpWithOutputs<T>(args...): the operator is constructed with
\* checkValid(nullptr) on a caller-supplied output tensor, which must already
\* have the inferred shape; then addOperatorAndConnect.  The output is a tensor
\* of the graph that no operator produces yet.
addOpWithOutputs(rec0, out) ==
    /\ pc = "idle"
    /\ NextOpId <= MaxOps
    /\ getSource(out) = NoOp
    /\ InferShape(rec0, tensorObj) = <<tensorObj[out].shape>>
    /\ LET op == NextOpId
           rec == [rec0 EXCEPT !.outputs = <<out>>]
           c == addOperatorAndConnect(tensorObj, opObj, op, rec)
       IN  /\ ops' = Append(ops, op)
           /\ tensorObj' = c.t
           /\ opObj' = c.o
    /\ sorted' = ClearSorted(sorted)
    /\ last' = Done("add_op", TRUE)
    /\ pre' = NoPre
    /\ UNCHANGED <<tensors, allocator, pc, refined, calls>>

\* addOpWithOutputs<TransposeObj>(input, output, perm)
AddTransposeWithOutputs ==
    \E t, out \in SeqToSet(tensors) : \E perm \in Perms(Len(tensorObj[t].shape)) :
        addOpWithOutputs(NewOp("Transpose", <<t>>, <<>>, perm, FALSE, FALSE, 0), out)

\* A caller gives a graph input (a tensor without a source) a new shape.
SetShape ==
    /\ pc = "idle"
    /\ \E t \in SeqToSet(tensors) : \E shape \in ShapesOut :
           /\ getSource(t) = NoOp
           /\ shape # tensorObj[t].shape
           /\ tensorObj' = [tensorObj EXCEPT ![t].shape = shape]
    /\ last' = Done("set_shape", TRUE)
    /\ pre' = NoPre
    /\ UNCHANGED <<tensors, ops, opObj, sorted, allocator, pc, refined, calls>>

\* ---------------------------------------------------------------- topo_sort
\* The test without the check of the inputs' sources.
ReadyAny(op, flags) == op \notin flags

\* The test without the check that op is not placed yet.
ReadyTwice(op, flags) ==
    \A i \in DOMAIN opObj[op].inputs :
        LET ptr == getSource(opObj[op].inputs[i])
        IN  ptr = NoOp \/ ptr \in flags

\* The test of topo_sort's inner loop: op is not placed yet and every input
\* has no source or a source that is already placed.
Ready(op, flags) ==
    /\ op \notin flags
    /\ \A i \in DOMAIN opObj[op].inputs :
           LET ptr == getSource(opObj[op].inputs[i])
           IN  ptr = NoOp \/ ptr \in flags

\* A pass that puts a ready operator at the front of the local vector.
RECURSIVE TopoPassFront(_, _)
TopoPassFront(acc, i) ==
    IF i > Len(ops) THEN acc
    ELSE TopoPassFront(IF Ready(ops[i], SeqToSet(acc)) THEN <<ops[i]>> \o acc ELSE acc,
                       i + 1)

\* A pass that stops at the first operator it places, so that every
\* placement restarts the scan from the front.
RECURSIVE TopoPassOne(_, _)
TopoPassOne(acc, i) ==
    IF i > Len(ops) THEN acc
    ELSE IF Ready(ops[i], SeqToSet(acc)) THEN Append(acc, ops[i])
    ELSE TopoPassOne(acc, i + 1)

\* One `for (auto const &op : ops)` pass from index i on; acc is the local
\* vector `sorted` (flags is its set of elements).
RECURSIVE TopoPass(_, _)
TopoPass(acc, i) ==
    IF i > Len(ops) THEN acc
    ELSE TopoPass(IF Ready(ops[i], SeqToSet(acc)) THEN Append(acc, ops[i]) ELSE acc, i + 1)

\* The while loop: stops when every operator is placed, or when a pass places
\* nothing (modified stays false).
RECURSIVE TopoLoop(_)
TopoLoop(acc) ==
    IF Len(acc) >= Len(ops) THEN acc
    ELSE LET nxt == TopoPass(acc, 1)
         IN  IF nxt = acc THEN acc ELSE TopoLoop(nxt)

\* GraphObj::topo_sort(): its return value and the ops / sorted it leaves.
topo_sort ==
    IF sorted THEN [ok |-> TRUE, ops |-> ops, sorted |-> TRUE]
    ELSE LET r == TopoLoop(<<>>)
         IN  IF Len(r) < Len(ops) THEN [ok |-> FALSE, ops |-> ops, sorted |-> sorted]
             ELSE [ok |-> TRUE, ops |-> r, sorted |-> TRUE]

TopoSort ==
    /\ pc = "idle"
    /\ ops' = topo_sort.ops
    /\ sorted' = topo_sort.sorted
    /\ last' = Done("topo_sort", topo_sort.ok)
    /\ pre' = Snapshot
    /\ UNCHANGED <<tensors, tensorObj, opObj, allocator, pc, refined, calls>>

\* -------------------------------------------------------------- shape_infer
\* GraphObj::getTensor(fuid): the first tensor of graph.tensors with that fuid,
\* 0 (nullptr) when there is none.
getTensor(tobj, fuid) ==
    IF \E i \in DOMAIN tensors : tobj[tensors[i]].fuid = fuid
    THEN tensors[CHOOSE i \in DOMAIN tensors :
                    /\ tobj[tensors[i]].fuid = fuid
                    /\ \A j \in 1..(i - 1) : tobj[tensors[j]].fuid # fuid]
    ELSE 0

\* TensorObj::setShape on tensor t.
setShape(tobj, t, shape) == [tobj EXCEPT ![t].shape = shape]

\* A loop that infers and compares the shapes and never stores the new one.
ShapeInferLoopStale(tobj, i) == [t |-> tobj, ok |-> TRUE]

\* The body of shape_infer's loop for the operator at index i, on tensor
\* objects tobj: stops with ok = FALSE at the first failed assertion, keeping
\* the shapes written so far.
RECURSIVE ShapeInferLoop(_, _)
ShapeInferLoop(tobj, i) ==
    IF i > Len(ops) THEN [t |-> tobj, ok |-> TRUE]
    ELSE LET o == opObj[ops[i]]
             ans == InferShape(o, tobj)
         IN  IF ans = <<>> \/ Len(ans) # Len(o.outputs) THEN [t |-> tobj, ok |-> FALSE]
             ELSE LET out == o.outputs[1]
                      newShape == ans[1]
                      oldShape == tobj[out].shape
                      tensor == getTensor(tobj, tobj[out].fuid)
                  IN  IF newShape = oldShape THEN ShapeInferLoop(tobj, i + 1)
                      ELSE IF tensor = 0 THEN [t |-> tobj, ok |-> FALSE]
                      ELSE ShapeInferLoop(setShape(tobj, tensor, newShape), i + 1)

shape_infer == ShapeInferLoop(tensorObj, 1)

ShapeInfer ==
    /\ pc = "idle"
    /\ tensorObj' = shape_infer.t
    /\ last' = Done("shape_infer", shape_infer.ok)
    /\ pre' = Snapshot
    /\ UNCHANGED <<tensors, ops, opObj, sorted, allocator, pc, refined, calls>>

\* ---------------------------------------------------------------- allocator
SizeT == 2 ^ SizeBits

\* The size as asked for, without padding.
getAlignedSizeRaw(size) == size

\* A rounding down to the alignment.
getAlignedSizeDown(size) == (size \div Alignment) * Alignment

\* Allocator::getAlignedSize in size_t arithmetic.
getAlignedSize(size) ==
    ((((size - 1) % SizeT) \div Alignment + 1) * Alignment) % SizeT

\* Blocks of free_blocks (a map offset -> size) that can hold size bytes.
Fitting(a, size) == {addr \in DOMAIN a.free_blocks : a.free_blocks[addr] >= size}

\* The last key in offset order instead of the first.
MaxOfKeys(S) == CHOOSE x \in S : \A y \in S : y <= x

MinOf(S) == CHOOSE x \in S : \A y \in S : x <= y

\* Remove key k from map f.
Erase(f, k) == [x \in DOMAIN f \ {k} |-> f[x]]

\* map[k] = v: insert or overwrite.
Put(f, k, v) == [x \in DOMAIN f \cup {k} |-> IF x = k THEN v ELSE f[x]]

\* An alloc whose tail growth adds the unpadded size to peak.
allocPeakRaw(a, size0) ==
    LET size == getAlignedSize(size0)
    IN  IF Fitting(a, size) # {}
        THEN LET block_addr == MinOf(Fitting(a, size))
             IN  [a |-> [a EXCEPT !.free_blocks =
                                     Put(Erase(@, block_addr), (block_addr + size) % SizeT,
                                         a.free_blocks[block_addr] - size),
                                  !.used = (@ + size) % SizeT],
                  addr |-> block_addr]
        ELSE [a |-> [a EXCEPT !.peak = (@ + size0) % SizeT, !.used = (@ + size) % SizeT],
              addr |-> a.peak]

\* An alloc whose tail growth forgets `this->peak += size`.
allocNoGrow(a, size0) ==
    [a |-> [a EXCEPT !.used = (@ + getAlignedSize(size0)) % SizeT], addr |-> a.peak]

\* An alloc that hands out a free block and leaves it in free_blocks.
allocKeepsBlock(a, size0) ==
    LET size == getAlignedSize(size0)
    IN  IF Fitting(a, size) # {}
        THEN [a |-> [a EXCEPT !.used = (@ + size) % SizeT],
              addr |-> MinOf(Fitting(a, size))]
        ELSE [a |-> [a EXCEPT !.peak = (@ + size) % SizeT, !.used = (@ + size) % SizeT],
              addr |-> a.peak]

\* Allocator::alloc(size) after its assertion: the allocator it leaves and the
\* offset it returns.  First fit in offset order, else growth at the tail.
alloc(a, size0) ==
    LET size == getAlignedSize(size0)
    IN  IF Fitting(a, size) # {}
        THEN LET block_addr == MinOf(Fitting(a, size))
                 block_size == a.free_blocks[block_addr]
                 remaining_size == block_size - size
             IN  [a |-> [a EXCEPT !.free_blocks =
                                     Put(Erase(@, block_addr), (block_addr + size) % SizeT,
                                         remaining_size),
                                  !.used = (@ + size) % SizeT],
                  addr |-> block_addr]
        ELSE [a |-> [a EXCEPT !.peak = (@ + size) % SizeT, !.used = (@ + size) % SizeT],
              addr |-> a.peak]

\* A free that returns the block but forgets the bytes in use.
freeKeepsUsed(a, addr, size0) ==
    [a EXCEPT !.free_blocks = Put(@, addr, getAlignedSizeRaw(size0))]

\* Allocator::free(addr, size) after its assertion: the allocator it leaves.
\* The block is inserted (or overwrites the entry at addr), merged with the
\* next entry when it ends where that one starts, then with the previous entry
\* when that one ends where it starts, and reclaimed when it ends at peak.
free(a, addr, size0) ==
    LET size == getAlignedSize(size0)
        fb1 == Put(a.free_blocks, addr, size)
        after == {k \in DOMAIN fb1 : k > addr}
        next == IF after = {} THEN addr ELSE MinOf(after)
        fb2 == IF after # {} /\ (addr + fb1[addr]) % SizeT = next
               THEN Put(Erase(fb1, next), addr, (fb1[addr] + fb1[next]) % SizeT)
               ELSE fb1
        before == {k \in DOMAIN fb2 : k < addr}
        prev == IF before = {} THEN addr ELSE CHOOSE x \in before : \A y \in before : y <= x
        merged == before # {} /\ (prev + fb2[prev]) % SizeT = addr
        fb3 == IF merged
               THEN Put(Erase(fb2, addr), prev, (fb2[prev] + fb2[addr]) % SizeT)
               ELSE fb2
        it == IF merged THEN prev ELSE addr
        tail == (it + fb3[it]) % SizeT = a.peak
    IN  [a EXCEPT !.used = (@ - size) % SizeT,
                  !.free_blocks = IF tail THEN Erase(fb3, it) ELSE fb3,
                  !.peak = IF tail THEN (@ - fb3[it]) % SizeT ELSE @]

\* ------------------------------------------------- a client of the Allocator
\* Calls one client makes on one Allocator object during its lifetime.
MaxCalls == 7

\* Sizes in bytes the client asks for.
AllocSizes == {0, 5, 8, 16}

\* An allocator that never notices the materialized memory.
FrozenNever(a) == FALSE

\* IT_ASSERT(this->ptr == nullptr) fails: the memory was materialized.
Frozen(a) == a.ptr

\* The object has not been destroyed.
Alive == \A i \in DOMAIN calls : calls[i].op # "destroy"

\* Indices in calls of the allocations that returned and were not freed since.
Held ==
    {i \in DOMAIN calls :
        /\ calls[i].op = "alloc"
        /\ calls[i].ok
        /\ ~\E j \in DOMAIN calls : calls[j].op = "free" /\ calls[j].ok /\ calls[j].of = i}

\* Number of runtime->alloc calls made so far.
RuntimeAllocs == Cardinality({i \in DOMAIN calls : calls[i].op = "getPtr" /\ calls[i].asked})

\* A call on the Allocator object alone: the graph is not involved.
ClientCall ==
    /\ pc = "idle"
    /\ Alive
    /\ Len(calls) < MaxCalls
    /\ UNCHANGED <<tensors, ops, tensorObj, opObj, sorted, pc, refined, last, pre>>

\* allocator.alloc(size)
Alloc ==
    /\ ClientCall
    /\ \E size \in AllocSizes :
          IF Frozen(allocator)
          THEN /\ calls' = Append(calls, [op |-> "alloc", ok |-> FALSE, size |-> size])
               /\ UNCHANGED allocator
          ELSE /\ allocator' = alloc(allocator, size).a
               /\ calls' = Append(calls, [op |-> "alloc", ok |-> TRUE, size |-> size,
                                          addr |-> alloc(allocator, size).addr])

\* allocator.free(addr, size) with the offset and the size of an allocation
\* that is still held.
Free ==
    /\ ClientCall
    /\ \E i \in Held :
          IF Frozen(allocator)
          THEN /\ calls' = Append(calls, [op |-> "free", ok |-> FALSE, of |-> i])
               /\ UNCHANGED allocator
          ELSE /\ allocator' = free(allocator, calls[i].addr, calls[i].size)
               /\ calls' = Append(calls, [op |-> "free", ok |-> TRUE, of |-> i])

\* runtime->alloc(bytes): the runtime hands out memory, the pointer it returns
\* is not null (TRUE stands for a pointer that is set).
runtimeAlloc(bytes) == TRUE

\* A getPtr that asks the runtime on every call.
getPtrAsksAlways(a) == TRUE

\* if (this->ptr == nullptr): getPtr asks the runtime for memory.
getPtrAsks(a) == ~a.ptr

\* allocator.getPtr(): the first call asks the runtime for peak bytes.  The
\* pointer is identified by the number of the runtime allocation it came from.
GetPtr ==
    /\ ClientCall
    /\ allocator' = [allocator EXCEPT !.ptr = IF getPtrAsks(allocator)
                                              THEN runtimeAlloc(allocator.peak) ELSE @]
    /\ calls' = Append(calls, [op |-> "getPtr", ok |-> TRUE,
                               asked |-> getPtrAsks(allocator),
                               bytes |-> allocator.peak,
                               ptr |-> IF getPtrAsks(allocator) THEN RuntimeAllocs + 1
                                       ELSE RuntimeAllocs])

\* ~Allocator(): runtime->dealloc(ptr) when ptr is not null.
Destroy ==
    /\ ClientCall
    /\ calls' = Append(calls, [op |-> "destroy", ok |-> TRUE, released |-> allocator.ptr])
    /\ UNCHANGED allocator

\* --------------------------------------------------------------- dataMalloc
\* The first loop of dataMalloc from index i on: a is the allocator, m the
\* local tensor_offset_map (fuid -> offset).
RECURSIVE PlanLoop(_, _, _)
PlanLoop(a, m, i) ==
    IF i > Len(tensors) THEN [a |-> a, m |-> m]
    ELSE LET r == alloc(a, getBytes(tensors[i]))
         IN  PlanLoop(r.a, Put(m, tensorObj[tensors[i]].fuid, r.addr), i + 1)

\* GraphObj::dataMalloc().  The assertion on topo_sort() throws on a cyclic
\* graph; alloc's assertion throws when the memory was materialized before
\* (after topo_sort has already reordered ops).  Otherwise every tensor is
\* planned, getPtr() materializes peak bytes and every tensor is bound to
\* base + offset (data holds the offset).
DataMalloc ==
    /\ pc = "idle"
    /\ pre' = NoPre
    /\ UNCHANGED <<tensors, opObj, pc, refined, calls>>
    /\ IF ~topo_sort.ok
       THEN /\ last' = Done("dataMalloc", FALSE)
            /\ UNCHANGED <<ops, sorted, tensorObj, allocator>>
       ELSE /\ ops' = topo_sort.ops
            /\ sorted' = topo_sort.sorted
            /\ IF Frozen(allocator) /\ tensors # <<>>
               THEN /\ last' = Done("dataMalloc", FALSE)
                    /\ UNCHANGED <<tensorObj, allocator>>
               ELSE LET plan == PlanLoop(allocator, <<>>, 1)
                    IN  /\ allocator' = [plan.a EXCEPT !.ptr = TRUE]
                        /\ tensorObj' =
                              [t \in DOMAIN tensorObj |->
                                  IF t \in SeqToSet(tensors)
                                  THEN [tensorObj[t] EXCEPT
                                            !.data = <<plan.m[tensorObj[t].fuid]>>]
                                  ELSE tensorObj[t]]
                        /\ last' = Done("dataMalloc", TRUE)

\* ----------------------------------------------------------------- optimize
\* perm1 and perm2 have the same size and perm2[perm1[i]] == i for every i.
IsInverse(perm1, perm2) ==
    /\ Len(perm1) = Len(perm2)
    /\ \A i \in 0..(Len(perm1) - 1) : perm2[perm1[i + 1] + 1] = i

\* A test that compares the last two axes with their own positions.
isSwapLastTwoOwn(perm) ==
    /\ Len(perm) >= 2
    /\ \A i \in 0..(Len(perm) - 1) : perm[i + 1] = i

\* The permutation swaps the last two axes and keeps every other axis.
isSwapLastTwo(perm) ==
    LET rank == Len(perm)
    IN  /\ rank >= 2
        /\ perm[rank] = rank - 2
        /\ perm[rank - 1] = rank - 1
        /\ \A i \in 0..(rank - 3) : perm[i + 1] = i

\* The source of tensor t is a Transpose operator.
FromTranspose(t) == getSource(t) # NoOp /\ opObj[getSource(t)].kind = "Transpose"

\* Rule T1 without the test on the number of targets of the middle tensor.
T1MatchAnyTargets(op) ==
    /\ opObj[op].kind = "Transpose"
    /\ LET input == opObj[op].inputs[1]
       IN  /\ FromTranspose(input)
           /\ IsInverse(opObj[getSource(input)].perm, opObj[op].perm)

\* Rule T1 matches at op: a Transpose whose input comes from a Transpose with
\* the inverse permutation, the input having exactly one target.
T1Match(op) ==
    /\ opObj[op].kind = "Transpose"
    /\ LET input == opObj[op].inputs[1]
       IN  /\ FromTranspose(input)
           /\ IsInverse(opObj[getSource(input)].perm, opObj[op].perm)
           /\ Len(getTargets(input)) = 1

\* Rule T2 rewrites input k (1 for A, 2 for B) of MatMul op.
T2Match(op, k) ==
    /\ isSwapLastTwo(opObj[getSource(opObj[op].inputs[k])].perm)
    /\ Len(getTargets(opObj[op].inputs[k])) = 1

\* A loop body without the MatMul branch.
RuleAtT1Only(op) == IF T1Match(op) THEN "T1" ELSE "none"

\* What the loop body does for op: "T1" rewrites a transpose pair and breaks;
\* "A" / "B" is the MatMul branch taken for input A / B, which sets refined and
\* breaks whether or not it rewrites; "none" goes on to the next operator.
RuleAt(op) ==
    IF T1Match(op) THEN "T1"
    ELSE IF opObj[op].kind # "MatMul" THEN "none"
    ELSE IF FromTranspose(opObj[op].inputs[1]) THEN "A"
    ELSE IF FromTranspose(opObj[op].inputs[2]) THEN "B"
    ELSE "none"

\* The loop of rule T1 over the targets tg of the pair's output go, from index
\* k on: each consumer gets the pair's input gi in place of go.  gis is gi's
\* source, op2 the second transpose.
RECURSIVE T1Loop(_, _, _, _, _, _, _)
T1Loop(st, tg, k, go, gi, gis, op2) ==
    IF k > Len(tg) THEN st
    ELSE LET nextOp == tg[k]
             o1 == [st.o EXCEPT ![nextOp].inputs = ReplaceAll(@, go, gi)]
             t1 == [st.t EXCEPT ![gi].targets = Append(@, nextOp)]
             t2 == [t1 EXCEPT ![go].targets = RemoveAll(@, nextOp)]
             o2 == [o1 EXCEPT ![nextOp].predecessors = @ \ {op2}]
             o3 == IF gis = NoOp THEN o2
                   ELSE [o2 EXCEPT ![nextOp].predecessors = @ \cup {gis}]
             o4 == IF gis = NoOp THEN o3
                   ELSE [o3 EXCEPT ![gis].successors = @ \cup {nextOp}]
         IN  T1Loop([t |-> t2, o |-> o4], tg, k + 1, go, gi, gis, op2)

\* Rule T1 applied at transOp2: the graph it leaves.
T1Rewrite(transOp2) ==
    LET input == opObj[transOp2].inputs[1]
        transOp1 == getSource(input)
        grandInput == opObj[transOp1].inputs[1]
        grandoutput == opObj[transOp2].outputs[1]
        grandInputSource == getSource(grandInput)
        o0 == IF grandInputSource = NoOp THEN opObj
              ELSE [opObj EXCEPT ![grandInputSource].successors = @ \ {transOp1}]
        st == T1Loop([t |-> tensorObj, o |-> o0], getTargets(grandoutput), 1,
                     grandoutput, grandInput, grandInputSource, transOp2)
        t1 == [st.t EXCEPT ![grandInput].targets = RemoveAll(@, transOp1)]
    IN  [tensors |-> RemoveFirst(RemoveFirst(tensors, opObj[transOp1].outputs[1]),
                                 opObj[transOp2].outputs[1]),
         ops |-> RemoveFirst(RemoveFirst(ops, transOp1), transOp2),
         t |-> t1,
         o |-> st.o]

\* Rule T2 applied to input k of matmulOp: the graph it leaves.
T2Rewrite(matmulOp, k) ==
    LET intermediateTensor == opObj[matmulOp].inputs[k]
        transOp == getSource(intermediateTensor)
        transInput == opObj[transOp].inputs[1]
        transInputSource == getSource(transInput)
        o1 == IF k = 1 THEN [opObj EXCEPT ![matmulOp].transA = ~@]
              ELSE [opObj EXCEPT ![matmulOp].transB = ~@]
        o2 == [o1 EXCEPT ![matmulOp].inputs = ReplaceAll(@, intermediateTensor, transInput)]
        t1 == [tensorObj EXCEPT ![transInput].targets = Append(@, matmulOp)]
        t2 == [t1 EXCEPT ![transInput].targets = RemoveAll(@, transOp)]
        t3 == [t2 EXCEPT ![intermediateTensor].targets = RemoveAll(@, matmulOp)]
        o3 == IF transInputSource = NoOp THEN o2
              ELSE [o2 EXCEPT ![transInputSource].successors = @ \ {transOp}]
        o4 == [o3 EXCEPT ![matmulOp].predecessors = @ \ {transOp}]
        o5 == IF transInputSource = NoOp THEN o4
              ELSE [o4 EXCEPT ![transInputSource].successors = @ \cup {matmulOp}]
        o6 == IF transInputSource = NoOp THEN o5
              ELSE [o5 EXCEPT ![matmulOp].predecessors = @ \cup {transInputSource}]
    IN  [tensors |-> RemoveFirst(tensors, intermediateTensor),
         ops |-> RemoveFirst(ops, transOp),
         t |-> t3,
         o |-> o6]

\* Indices of graph.ops at which the loop body breaks.
Hits == {i \in DOMAIN ops : RuleAt(ops[i]) # "none"}

\* One execution of the do-body: the for loop runs to the first index where
\* the body breaks.  Returns the graph it leaves and the value of refined.
OptimizeBody ==
    IF Hits = {}
    THEN [tensors |-> tensors, ops |-> ops, t |-> tensorObj, o |-> opObj,
          refined |-> FALSE]
    ELSE LET op == ops[MinOf(Hits)]
             rule == RuleAt(op)
             k == IF rule = "A" THEN 1 ELSE 2
             g == IF rule = "T1" THEN T1Rewrite(op)
                  ELSE IF T2Match(op, k) THEN T2Rewrite(op, k)
                  ELSE [tensors |-> tensors, ops |-> ops, t |-> tensorObj, o |-> opObj]
         IN  [tensors |-> g.tensors, ops |-> g.ops, t |-> g.t, o |-> g.o,
              refined |-> TRUE]

\* optimize() is entered: `bool refined = false;`
OptimizeCall ==
    /\ pc = "idle"
    /\ pc' = "body"
    /\ refined' = FALSE
    /\ pre' = Snapshot
    /\ UNCHANGED <<tensors, ops, tensorObj, opObj, sorted, allocator, last, calls>>

\* do { refined = false; for (...) {...} }
OptimizePass ==
    /\ pc = "body"
    /\ tensors' = OptimizeBody.tensors
    /\ ops' = OptimizeBody.ops
    /\ tensorObj' = OptimizeBody.t
    /\ opObj' = OptimizeBody.o
    /\ refined' = OptimizeBody.refined
    /\ pc' = "while"
    /\ UNCHANGED <<sorted, allocator, last, pre, calls>>

\* } while (refined);  -- then optimize() returns
OptimizeWhile ==
    /\ pc = "while"
    /\ IF refined
       THEN pc' = "body" /\ UNCHANGED last
       ELSE pc' = "idle" /\ last' = Done("optimize", TRUE)
    /\ UNCHANGED <<tensors, ops, tensorObj, opObj, sorted, allocator, refined, pre, calls>>

\* ------------------------------------------------ size rounding on its own
\* A request size anywhere in the range of size_t.
SizeArgs == {[op |-> "args", size |-> n] : n \in 0..(SizeT - 1)}

\* getAlignedSize(size) as alloc and free call it on their argument.
AlignSize ==
    /\ pc = "idle"
    /\ last.op = "args"
    /\ last' = [op |-> "aligned", size |-> last.size, out |-> getAlignedSize(last.size)]
    /\ UNCHANGED <<tensors, ops, tensorObj, opObj, sorted, allocator, pc, refined, pre,
                   calls>>

InitSize ==
    /\ tensors = <<>>
    /\ ops = <<>>
    /\ tensorObj = <<>>
    /\ opObj = <<>>
    /\ sorted = FALSE
    /\ allocator = [used |-> 0, peak |-> 0, free_blocks |-> <<>>, ptr |-> FALSE]
    /\ pc = "idle"
    /\ refined = FALSE
    /\ last \in SizeArgs
    /\ pre = NoPre
    /\ calls = <<>>

NextSize == AlignSize

SpecSize == InitSize /\ [][NextSize]_vars

\* ----------------------------------------- the public mutations alone
\* add_tensor(shape, dtype), add_tensor(existing) with a tensor made by an
\* earlier add_tensor or add_op of this graph, and add_op.
NextAdd ==
    \/ \E shape \in Shapes, dsize \in DTypeSizes : AddTensor(MaxTensors, shape, dsize)
    \/ \E t \in DOMAIN tensorObj : AddExistingTensor(MaxTensors + 1, t)
    \/ AddTranspose(MaxTensors)
    \/ AddMatmul(MaxTensors)
    \/ AddConcat(MaxTensors)

\* ------------------------------------------- shape inference on its own
\* Largest rank and largest dimension of the shapes inference is applied to.
MaxRank == 3

MaxDim == 3

\* Shapes of rank 0..MaxRank with positive dimensions.
InferShapes == UNION {[1..r -> 1..MaxDim] : r \in 0..MaxRank}

\* Arguments of one operator construction: the input shapes, the dim given to
\* Concat (legal or not) and the transposition flags given to MatMul.
InferArgs ==
    {[op |-> "args", shapes |-> ss, dim |-> d, transA |-> ta, transB |-> tb] :
        ss \in UNION {[1..n -> InferShapes] : n \in 1..MaxConcatInputs},
        d \in (-(MaxRank + 1))..MaxRank,
        ta \in BOOLEAN, tb \in BOOLEAN}

\* The arguments are chosen and nothing was inferred yet.
InferCall ==
    /\ pc = "idle"
    /\ last.op = "args"
    /\ UNCHANGED <<tensors, ops, tensorObj, opObj, sorted, allocator, pc, refined, pre,
                   calls>>

\* ConcatObj(graph, inputs, output, dim): get_real_axis against inputs[0]'s
\* rank, then checkValid runs inferShape.  An assertion that fires makes the
\* construction fail.
InferConcat ==
    /\ InferCall
    /\ LET rank == Len(last.shapes[1])
           r == IF RealAxisOK(last.dim, rank)
                THEN ConcatInferShape(get_real_axis(last.dim, rank), last.shapes)
                ELSE <<>>
       IN  last' = [op |-> "concat", args |-> last, ok |-> r # <<>>, out |-> r]

\* What MatmulObj::inferShape can do on shapes shapeA, shapeB.  With a rank
\* below 2 it reads shape[rank - 2] with rank - 2 wrapped around in size_t
\* and builds the batch from the range [begin, end - 2): behaviour is
\* undefined, the call may throw or return a shape made of what it read.
MatmulOutcomes(transA, transB, shapeA, shapeB) ==
    IF Len(shapeA) >= 2 /\ Len(shapeB) >= 2
    THEN {MatmulInferShape(transA, transB, shapeA, shapeB)}
    ELSE {<<>>} \cup {<<sh>> : sh \in [1..2 -> 1..MaxDim]}

\* The members m, n, k of a MatmulObj after construction, as <<m, n, k>>: the
\* constructor initializes transA and transB only and inferShape assigns none
\* of the three, so each holds whatever an int never written holds.
MatmulCached == [1..3 -> {0, MaxDim}]

\* MatmulObj(graph, A, B, C, transA, transB): checkValid runs inferShape.
InferMatmul ==
    /\ InferCall
    /\ Len(last.shapes) = 2
    /\ \E r \in MatmulOutcomes(last.transA, last.transB, last.shapes[1], last.shapes[2]) :
       \E c \in MatmulCached :
           last' = [op |-> "matmul", args |-> last, ok |-> r # <<>>, out |-> r,
                    mnk |-> c]

\* infer_broadcast(A, B): halts on an incompatible pair of dimensions.
InferBroadcast ==
    /\ InferCall
    /\ Len(last.shapes) = 2
    /\ LET A == last.shapes[1]
           B == last.shapes[2]
       IN  last' = [op |-> "broadcast", args |-> last, ok |-> BroadcastOK(A, B),
                    out |-> IF BroadcastOK(A, B) THEN infer_broadcast(A, B) ELSE <<>>]

InitInfer ==
    /\ tensors = <<>>
    /\ ops = <<>>
    /\ tensorObj = <<>>
    /\ opObj = <<>>
    /\ sorted = FALSE
    /\ allocator = [used |-> 0, peak |-> 0, free_blocks |-> <<>>, ptr |-> FALSE]
    /\ pc = "idle"
    /\ refined = FALSE
    /\ last \in InferArgs
    /\ pre = NoPre
    /\ calls = <<>>

NextInfer ==
    \/ InferConcat
    \/ InferMatmul
    \/ InferBroadcast

SpecInfer == InitInfer /\ [][NextInfer]_vars

\* ------------------------------------------------------------ specification
\* GraphObj(runtime): empty lists, sorted(false); Allocator(runtime): used = 0,
\* peak = 0, ptr = nullptr, no free block.
Init ==
    /\ tensors = <<>>
    /\ ops = <<>>
    /\ tensorObj = <<>>
    /\ opObj = <<>>
    /\ sorted = FALSE
    /\ allocator = [used |-> 0, peak |-> 0, free_blocks |-> <<>>, ptr |-> FALSE]
    /\ pc = "idle"
    /\ refined = FALSE
    /\ last = Done("init", TRUE)
    /\ pre = NoPre
    /\ calls = <<>>

Next ==
    \/ \E shape \in Shapes, dsize \in DTypeSizes : AddTensor(MaxTensors, shape, dsize)
    \/ AddTranspose(MaxTensors)
    \/ AddMatmul(MaxTensors)
    \/ AddConcat(MaxTensors)
    \/ TopoSort
    \/ ShapeInfer
    \/ OptimizeCall
    \/ OptimizePass
    \/ OptimizeWhile

Spec == Init /\ [][Next]_vars

\* Construction alone, add_tensor(existing) included.
SpecAdd == Init /\ [][NextAdd]_vars

\* Construction with caller-supplied outputs and shape changes, topo_sort and
\* shape_infer: graphs whose ops are out of order or cyclic.
NextOut ==
    \/ \E shape \in ShapesOut, dsize \in DTypeSizes : AddTensor(MaxOutTensors, shape, dsize)
    \/ AddTranspose(MaxOutTensors)
    \/ AddMatmul(MaxOutTensors)
    \/ AddTransposeWithOutputs
    \/ SetShape
    \/ TopoSort
    \/ ShapeInfer

SpecOut == Init /\ [][NextOut]_vars

\* Construction with and without caller-supplied outputs and topo_sort alone.
NextSort ==
    \/ \E shape \in ShapesOut, dsize \in DTypeSizes : AddTensor(MaxTensors, shape, dsize)
    \/ AddTranspose(MaxTensors)
    \/ AddTransposeWithOutputs
    \/ TopoSort

SpecSort == Init /\ [][NextSort]_vars

\* Construction with and without caller-supplied outputs, interleaved with
\* topo_sort, shape_infer and optimize.
NextAll ==
    \/ \E shape \in ShapesOut, dsize \in DTypeSizes : AddTensor(MaxOutTensors, shape, dsize)
    \/ AddTranspose(MaxOutTensors)
    \/ AddMatmul(MaxOutTensors)
    \/ AddTransposeWithOutputs
    \/ TopoSort
    \/ ShapeInfer
    \/ OptimizeCall
    \/ OptimizePass
    \/ OptimizeWhile

SpecAll == Init /\ [][NextAll]_vars

\* Construction and dataMalloc().
NextMem ==
    \/ \E shape \in Shapes, dsize \in DTypeSizes : AddTensor(MaxTensors, shape, dsize)
    \/ AddTranspose(MaxTensors)
    \/ AddMatmul(MaxTensors)
    \/ AddConcat(MaxTensors)
    \/ DataMalloc

SpecMem == Init /\ [][NextMem]_vars

\* A client that plans, frees, materializes and destroys one Allocator.
NextAlloc ==
    \/ Alloc
    \/ Free
    \/ GetPtr
    \/ Destroy

SpecAlloc == Init /\ [][NextAlloc]_vars

\* Construction and optimize() alone.
NextOpt ==
    \/ \E shape \in Shapes, dsize \in DTypeSizes : AddTensor(MaxTensors, shape, dsize)
    \/ AddTranspose(MaxTensors)
    \/ AddMatmul(MaxTensors)
    \/ AddConcat(MaxTensors)
    \/ OptimizeCall
    \/ OptimizePass
    \/ OptimizeWhile

\* The running call keeps executing: a single thread runs optimize() to its end.
FairSpec == Init /\ [][NextOpt]_vars /\ WF_vars(OptimizePass) /\ WF_vars(OptimizeWhile)

\* ---------------------------------------------------------- graph validity
InOps(o) == Contains(ops, o)

InTensors(t) == Contains(tensors, t)

\* A call has returned: name is the public call that completed last.
Returned(name) == pc = "idle" /\ last.op = name

\* checkValid's first assertion on tensor list ts with objects tobj: no tensor
\* is without both a source and a target.
NoOrphanIn(ts, tobj) ==
    \A i \in DOMAIN ts : ~(Len(tobj[ts[i]].targets) = 0 /\ tobj[ts[i]].source = NoOp)

\* Every tensor has a source operator in graph.ops or at least one target.
NoOrphan ==
    \A i \in DOMAIN tensors :
        InOps(getSource(tensors[i])) \/ Len(getTargets(tensors[i])) > 0

\* No surviving node references a node that is not in the graph.
NoDangling ==
    /\ \A i \in DOMAIN tensors :
          /\ getSource(tensors[i]) # NoOp => InOps(getSource(tensors[i]))
          /\ \A j \in DOMAIN getTargets(tensors[i]) : InOps(getTargets(tensors[i])[j])
    /\ \A i \in DOMAIN ops :
          /\ \A j \in DOMAIN opObj[ops[i]].inputs : InTensors(opObj[ops[i]].inputs[j])
          /\ \A j \in DOMAIN opObj[ops[i]].outputs : InTensors(opObj[ops[i]].outputs[j])
          /\ \A p \in opObj[ops[i]].predecessors : InOps(p)
          /\ \A q \in opObj[ops[i]].successors : InOps(q)

\* Operator edges agree with tensor edges.
EdgesAgree ==
    \A i \in DOMAIN ops : \A j \in DOMAIN opObj[ops[i]].inputs :
        LET p == getSource(opObj[ops[i]].inputs[j])
        IN  p # NoOp => /\ p \in opObj[ops[i]].predecessors
                        /\ ops[i] \in opObj[p].successors

\* Some operator was removed by the optimize() call that is running or that
\* returned last.
Rewrote == pre.set /\ Len(ops) < Len(pre.ops)

\* ------------------------------------------------------------------ claims

\* C1: optimize() terminates on every finite graph: every call that has been
\* entered returns after finitely many executions of the do-body.
C1_OptimizeTerminates == (pc # "idle") ~> (pc = "idle")

\* C2: after optimize() returns on a graph without orphans, no tensor of
\* graph.tensors is an orphan: each has a source operator in graph.ops or at
\* least one target operator.
C2_NoOrphanAfterOptimize ==
    (Returned("optimize") /\ NoOrphanIn(pre.tensors, pre.tensorObj)) => NoOrphan

\* C3: after optimize() returns, no surviving node references a removed node:
\* sources and targets of tensors are in graph.ops, inputs and outputs of
\* operators are in graph.tensors, predecessors and successors are in graph.ops.
C3_NoDanglingAfterOptimize == Returned("optimize") => NoDangling

\* An optimize() call that removed operators has returned, operators survive,
\* and a surviving operator had its input replaced.
C3_Witness ==
    /\ Returned("optimize")
    /\ Rewrote
    /\ \E i \in DOMAIN ops : opObj[ops[i]].inputs # pre.opObj[ops[i]].inputs

\* C4: after any sequence of add_op calls and optimize() rewrites, for every
\* operator op of graph.ops and every input t of op with t.source = p, p is in
\* op.predecessors and op is in p.successors.
C4_EdgesAgree == pc \in {"idle", "while"} => EdgesAgree

\* A rewrite has connected a surviving consumer to the producer of its new
\* input.
C4_Witness ==
    /\ pc = "while"
    /\ Rewrote
    /\ \E i \in DOMAIN ops :
          /\ opObj[ops[i]].inputs # pre.opObj[ops[i]].inputs
          /\ opObj[ops[i]].predecessors # {}
          /\ opObj[ops[i]].predecessors # pre.opObj[ops[i]].predecessors


\* graph.ops is in topological order: the producer of every input of an
\* operator is at a strictly smaller index.
TopoOrdered ==
    \A i \in DOMAIN ops : \A j \in DOMAIN opObj[ops[i]].inputs :
        LET p == getSource(opObj[ops[i]].inputs[j])
        IN  p # NoOp => \E k \in 1..(i - 1) : ops[k] = p

\* Every predecessor of an operator is at a strictly smaller index.
PredsBefore ==
    \A i \in DOMAIN ops : \A p \in opObj[ops[i]].predecessors :
        \E k \in 1..(i - 1) : ops[k] = p

\* The operators of graph.ops that produce an input of o.
DependsOn(o) ==
    {getSource(opObj[o].inputs[j]) : j \in DOMAIN opObj[o].inputs} \cap SeqToSet(ops)

\* The operators reachable from the set S along DependsOn in at most n steps.
RECURSIVE Ancestors(_, _)
Ancestors(S, n) ==
    IF n = 0 THEN S ELSE Ancestors(S \cup UNION {DependsOn(o) : o \in S}, n - 1)

\* Some operator depends, directly or through other operators, on itself.
HasCycle == \E i \in DOMAIN ops : ops[i] \in Ancestors(DependsOn(ops[i]), Len(ops))

\* Every output tensor has the shape its operator infers from the current
\* input shapes.
ShapesInferred ==
    \A i \in DOMAIN ops :
        LET o == opObj[ops[i]]
        IN  /\ Len(InferShape(o, tensorObj)) = Len(o.outputs)
            /\ \A j \in DOMAIN o.outputs :
                  tensorObj[o.outputs[j]].shape = InferShape(o, tensorObj)[j]

\* C5: when topo_sort() returns true, every operator of graph.ops is at a
\* strictly larger index than the producer of each of its inputs, and than
\* each of its predecessors.
C5_TopoSortOrders ==
    (Returned("topo_sort") /\ last.ok) => (TopoOrdered /\ PredsBefore)

\* topo_sort() returned true and has changed the order of graph.ops.
C5_Witness == Returned("topo_sort") /\ last.ok /\ ops # pre.ops

\* C6: topo_sort() returns false exactly when the operators of the graph
\* contain a dependency cycle, and true for every acyclic graph.
C6_TopoSortFalseIffCycle == Returned("topo_sort") => (last.ok <=> ~HasCycle)

\* topo_sort() returned false on two operators that feed each other.
C6_Witness ==
    /\ Returned("topo_sort")
    /\ ~last.ok
    /\ \E i, j \in DOMAIN ops :
          i # j /\ ops[i] \in DependsOn(ops[j]) /\ ops[j] \in DependsOn(ops[i])

\* C7 as stated: after shape_infer() returns, every output shape equals the
\* operator's inferred shape, whether or not graph.ops is in topological order.
C7_ShapeInferAnyOrder == (Returned("shape_infer") /\ last.ok) => ShapesInferred

\* C7 amended: after shape_infer() returns on a graph whose graph.ops is in
\* topological order, every output shape equals the operator's inferred shape.
C7_ShapeInferSorted ==
    (Returned("shape_infer") /\ last.ok /\ TopoOrdered) => ShapesInferred

\* shape_infer() returned on an ordered graph of two operators or more and has
\* changed the shape of the output of an operator fed by another operator.
C7_Witness ==
    /\ Returned("shape_infer")
    /\ last.ok
    /\ TopoOrdered
    /\ \E i \in DOMAIN ops :
          /\ opObj[ops[i]].predecessors # {}
          /\ tensorObj[opObj[ops[i]].outputs[1]].shape
                # pre.tensorObj[opObj[ops[i]].outputs[1]].shape

\* ------------------------------------------------------- rewrite rules
\* perm2 undoes perm1: equal lengths and perm2[perm1[i]] = i for every axis i.
InversePerms(perm1, perm2) ==
    /\ Len(perm1) = Len(perm2)
    /\ \A i \in DOMAIN perm1 : perm2[perm1[i] + 1] = i - 1

\* perm is the identity on every axis but the last two, which it swaps.
SwapsLastTwo(perm) ==
    /\ Len(perm) >= 2
    /\ perm = [i \in 1..Len(perm) |->
                  IF i = Len(perm) THEN Len(perm) - 2
                  ELSE IF i = Len(perm) - 1 THEN Len(perm) - 1
                  ELSE i - 1]

\* In the graph (oobj, tobj), op2 is the second transpose of an inverse pair
\* whose intermediate tensor has one target.
T1Pattern(oobj, tobj, op2) ==
    /\ oobj[op2].kind = "Transpose"
    /\ LET op1 == tobj[oobj[op2].inputs[1]].source
       IN  /\ op1 # NoOp
           /\ oobj[op1].kind = "Transpose"
           /\ InversePerms(oobj[op1].perm, oobj[op2].perm)
           /\ Len(tobj[oobj[op2].inputs[1]].targets) = 1

\* The result rule T1 promises for the pair ending at op2 of the graph
\* (oobj, tobj), stated of the graph (ops2, tensors2, oobj2, tobj2).
T1Result(oobj, tobj, op2, ops2, tensors2, oobj2, tobj2) ==
    LET t_mid == oobj[op2].inputs[1]
        op1 == tobj[t_mid].source
        t_in == oobj[op1].inputs[1]
        t_out == oobj[op2].outputs[1]
    IN  /\ ~Contains(ops2, op1)
        /\ ~Contains(ops2, op2)
        /\ ~Contains(tensors2, t_mid)
        /\ ~Contains(tensors2, t_out)
        /\ \A c \in SeqToSet(tobj[t_out].targets) :
              /\ \A j \in DOMAIN oobj[c].inputs :
                    oobj[c].inputs[j] = t_out => oobj2[c].inputs[j] = t_in
              /\ Contains(tobj2[t_in].targets, c)

\* In the graph (oobj, tobj), input k of MatMul m is produced by a Transpose
\* that swaps the last two axes, and has one target.
T2Pattern(oobj, tobj, m, k) ==
    /\ oobj[m].kind = "MatMul"
    /\ LET tr == tobj[oobj[m].inputs[k]].source
       IN  /\ tr # NoOp
           /\ oobj[tr].kind = "Transpose"
           /\ SwapsLastTwo(oobj[tr].perm)
           /\ Len(tobj[oobj[m].inputs[k]].targets) = 1

\* The result rule T2 promises for input k of MatMul m of the graph
\* (oobj, tobj), stated of the graph (ops2, tensors2, oobj2, tobj2).
T2Result(oobj, tobj, m, k, ops2, tensors2, oobj2, tobj2) ==
    LET t == oobj[m].inputs[k]
        tr == tobj[t].source
    IN  /\ ~Contains(ops2, tr)
        /\ ~Contains(tensors2, t)
        /\ IF k = 1 THEN oobj2[m].transA = ~oobj[m].transA
                    ELSE oobj2[m].transB = ~oobj[m].transB
        /\ oobj2[m].inputs[k] = oobj[tr].inputs[1]
        /\ InferShape(oobj2[m], tobj2) # <<>>
        /\ InferShape(oobj2[m], tobj2) = InferShape(oobj[m], tobj)

\* The operator at which the running pass of optimize() breaks.
FirstHit == ops[MinOf(Hits)]

\* C8 as stated: after optimize() returns, every inverse transpose pair of the
\* graph it was called on, with the intermediate tensor consumed only by the
\* second transpose, is gone with its two output tensors, and the consumers of
\* the pair's output read the pair's input.
C8_T1AfterOptimize ==
    Returned("optimize") =>
        \A op2 \in SeqToSet(pre.ops) :
            T1Pattern(pre.opObj, pre.tensorObj, op2) =>
                T1Result(pre.opObj, pre.tensorObj, op2, ops, tensors, opObj, tensorObj)

\* C8 amended: each pass of optimize() whose first rule to fire is T1, at the
\* second transpose of an inverse pair with a single-target intermediate
\* tensor, removes both transposes and their two output tensors and leaves
\* every consumer of the pair's output reading the pair's input, and listed
\* in its targets.
C8_T1Pass ==
    [][(pc = "body" /\ Hits # {} /\ T1Pattern(opObj, tensorObj, FirstHit))
          => T1Result(opObj, tensorObj, FirstHit, ops', tensors', opObj', tensorObj')]_vars

\* A pass has just cancelled a transpose pair whose output had a consumer that
\* is not a transpose: the consumer reads another tensor than before.
C8_Witness ==
    /\ pc = "while"
    /\ pre.set
    /\ Len(ops) = Len(pre.ops) - 2
    /\ \E i \in DOMAIN ops :
          /\ opObj[ops[i]].kind = "Concat"
          /\ opObj[ops[i]].inputs # pre.opObj[ops[i]].inputs

UniqueFuids ==
    \A i, j \in DOMAIN tensors :
        i # j => tensorObj[tensors[i]].fuid # tensorObj[tensors[j]].fuid

\* Tensor t is bound to a range that ends at or before the allocator's peak.
BoundWithinPeak(t) ==
    /\ tensorObj[t].data # <<>>
    /\ tensorObj[t].data[1] + getBytes(t) <= allocator.peak

\* The byte ranges of tensors t and u do not intersect.
RangesDisjoint(t, u) ==
    \/ tensorObj[t].data[1] + getBytes(t) <= tensorObj[u].data[1]
    \/ tensorObj[u].data[1] + getBytes(u) <= tensorObj[t].data[1]

\* C10: after dataMalloc() succeeds on a graph with unique fuids, every tensor
\* of graph.tensors is bound at an offset with offset + bytes <= peak, and the
\* ranges of two distinct tensors are disjoint.
C10_PlanDisjointWithinPeak ==
    (Returned("dataMalloc") /\ last.ok /\ UniqueFuids) =>
        /\ \A i \in DOMAIN tensors : BoundWithinPeak(tensors[i])
        /\ \A i, j \in DOMAIN tensors : i # j => RangesDisjoint(tensors[i], tensors[j])

\* dataMalloc() succeeded on a graph of three tensors or more, produced by
\* operators, with tensors of different sizes.
C10_Witness ==
    /\ Returned("dataMalloc")
    /\ last.ok
    /\ UniqueFuids
    /\ Len(tensors) >= 3
    /\ ops # <<>>
    /\ \E i, j \in DOMAIN tensors : getBytes(tensors[i]) # getBytes(tensors[j])

\* --------------------------------------------------------- allocator claims
\* The aligned bytes the allocator holds after the first n calls: every alloc
\* that returned adds its aligned size, every free that returned subtracts it.
RECURSIVE RunningSum(_)
RunningSum(n) ==
    IF n = 0 THEN 0
    ELSE LET c == calls[n]
         IN  IF c.op = "alloc" /\ c.ok THEN RunningSum(n - 1) + getAlignedSize(c.size)
             ELSE IF c.op = "free" /\ c.ok
                  THEN RunningSum(n - 1) - getAlignedSize(calls[c.of].size)
             ELSE RunningSum(n - 1)

\* The largest value the running sum has taken.
MaxRunningSum ==
    CHOOSE m \in {RunningSum(n) : n \in 0..Len(calls)} :
        \A n \in 0..Len(calls) : RunningSum(n) <= m

\* Some allocation returned and every allocation that returned was freed.
AllMatched == Held = {} /\ \E i \in DOMAIN calls : calls[i].op = "alloc" /\ calls[i].ok

\* The last call was a free that returned.
AfterFree == calls # <<>> /\ calls[Len(calls)].op = "free" /\ calls[Len(calls)].ok

\* No entry of free_blocks ends exactly where another entry starts.
NoAdjacentBlocks ==
    \A x, y \in DOMAIN allocator.free_blocks :
        x # y => x + allocator.free_blocks[x] # y

\* No entry of free_blocks ends at peak.
NoTailBlock ==
    \A x \in DOMAIN allocator.free_blocks : x + allocator.free_blocks[x] # allocator.peak

\* The calls made so far are alloc(sizes[1]), alloc(sizes[2]), ... followed by
\* the frees of the allocations numbered frees[1], frees[2], ...
CallsAre(sizes, frees) ==
    /\ Len(calls) = Len(sizes) + Len(frees)
    /\ \A i \in DOMAIN sizes :
          calls[i].op = "alloc" /\ calls[i].ok /\ calls[i].size = sizes[i]
    /\ \A j \in DOMAIN frees :
          /\ calls[Len(sizes) + j].op = "free"
          /\ calls[Len(sizes) + j].ok
          /\ calls[Len(sizes) + j].of = frees[j]

\* ---------------------------------------------------------------- C11
\* C11: every offset Allocator::alloc returned is a multiple of the alignment
\* (8), whatever was asked for and whatever allocations and frees of returned
\* pairs came before.
C11_OffsetsAligned ==
    \A i \in DOMAIN calls :
        (calls[i].op = "alloc" /\ calls[i].ok) => calls[i].addr % Alignment = 0

\* An allocation of a size that is no multiple of 8 was freed, and a later
\* allocation returned an offset above 0.
C11_Witness ==
    \E i, j, k \in DOMAIN calls :
        /\ i < j /\ j < k
        /\ calls[i].op = "alloc" /\ calls[i].ok /\ calls[i].size % Alignment # 0
        /\ calls[j].op = "free" /\ calls[j].ok
        /\ calls[k].op = "alloc" /\ calls[k].ok /\ calls[k].addr > 0

\* ---------------------------------------------------------------- C12
\* C12: once every allocation that returned has been matched by the free of
\* its offset and size, used is 0 again.
C12_RoundTrip == AllMatched => allocator.used = 0

\* Three allocations were made and all freed, the first one freed before the
\* last one.
C12_Witness ==
    /\ AllMatched
    /\ \E i, j, k \in DOMAIN calls :
          /\ i < j /\ j < k
          /\ calls[i].op = "alloc" /\ calls[j].op = "alloc" /\ calls[k].op = "alloc"
          /\ calls[i].size > 0 /\ calls[j].size > 0 /\ calls[k].size > 0
          /\ \E f, g \in DOMAIN calls :
                /\ f < g
                /\ calls[f].op = "free" /\ calls[f].of = i
                /\ calls[g].op = "free" /\ calls[g].of = k

\* ---------------------------------------------------------------- C13
\* The calls so far are allocations followed by frees: no allocation returned
\* after a free did.
AllocsThenFrees ==
    \A i, j \in DOMAIN calls :
        (i < j /\ calls[i].op = "free" /\ calls[i].ok) => ~(calls[j].op = "alloc" /\ calls[j].ok)

\* No free has returned yet.
NoFreeYet == \A i \in DOMAIN calls : ~(calls[i].op = "free" /\ calls[i].ok)

ThreeBlocksExample(n) ==
    /\ Len(calls) = 5 + n
    /\ CallsAre(<<8, 8, 8>>, <<2, 3>>) \/ n > 0
    /\ \A i \in 1..3 : calls[i].op = "alloc" /\ calls[i].ok /\ calls[i].size = 8
    /\ calls[4].op = "free" /\ calls[4].ok /\ calls[4].of = 2
    /\ calls[5].op = "free" /\ calls[5].ok /\ calls[5].of = 3

\* C14: after every free of an outstanding allocation no entry of free_blocks
\* ends exactly where another one starts and no entry ends at peak; three
\* 8-byte allocations with the second and then the third freed leave
\* free_blocks empty and peak 8, and a following alloc(16) returns 8.
C14_CoalescedAndReclaimed ==
    /\ AfterFree => (NoAdjacentBlocks /\ NoTailBlock)
    /\ ThreeBlocksExample(0) => (allocator.free_blocks = <<>> /\ allocator.peak = 8)
    /\ (ThreeBlocksExample(1) /\ calls[6].op = "alloc" /\ calls[6].size = 16)
           => (calls[6].addr = 8 /\ allocator.peak = 24)

\* The example of C14 alone.
C14_Example ==
    /\ ThreeBlocksExample(0) => (allocator.free_blocks = <<>> /\ allocator.peak = 8)
    /\ (ThreeBlocksExample(1) /\ calls[6].op = "alloc" /\ calls[6].size = 16)
           => (calls[6].addr = 8 /\ allocator.peak = 24)

\* The example of C14 was run to its end.
C14_ExampleReached ==
    ThreeBlocksExample(1) /\ calls[6].op = "alloc" /\ calls[6].size = 16

\* Every request made so far had a positive size.
PositiveSizes == \A i \in DOMAIN calls : calls[i].op = "alloc" => calls[i].size > 0

\* The first part of C14 for requests of positive size.
C14_PositiveSizes == (AfterFree /\ PositiveSizes) => (NoAdjacentBlocks /\ NoTailBlock)

\* ---------------------------------------------------------------- C15
\* The step is a call of alloc or free on the allocator.
AllocOrFreeCalled ==
    /\ Len(calls') = Len(calls) + 1
    /\ calls'[Len(calls')].op \in {"alloc", "free"}

\* C15: once getPtr() has materialized the memory every later alloc and free
\* fails and leaves used, peak and free_blocks as they were.
C15_FrozenAfterGetPtr ==
    [][(allocator.ptr /\ AllocOrFreeCalled) =>
          /\ ~calls'[Len(calls')].ok
          /\ allocator'.used = allocator.used
          /\ allocator'.peak = allocator.peak
          /\ allocator'.free_blocks = allocator.free_blocks]_vars

\* After getPtr(), with bytes in use and a free block on the list, an alloc
\* and a free were both attempted and failed.
C15_Witness ==
    /\ allocator.ptr
    /\ allocator.used > 0
    /\ allocator.free_blocks # <<>>
    /\ \E g, i, j \in DOMAIN calls :
          /\ g < i /\ g < j
          /\ calls[g].op = "getPtr"
          /\ calls[i].op = "alloc" /\ ~calls[i].ok
          /\ calls[j].op = "free" /\ ~calls[j].ok

\* ---------------------------------------------------------------- C16
\* Indices in calls of the getPtr() calls.
GetPtrCalls == {i \in DOMAIN calls : calls[i].op = "getPtr"}

\* C16: the runtime is asked for memory at most once, by the first getPtr()
\* and for exactly peak bytes; every later getPtr() returns the same base
\* pointer without asking again; the destructor releases the pointer once if
\* getPtr() was called and releases nothing otherwise.
C16_MaterializedOnce ==
    /\ RuntimeAllocs <= 1
    /\ \A i \in GetPtrCalls :
          /\ calls[i].asked <=> (\A j \in GetPtrCalls : i <= j)
          /\ calls[i].asked => calls[i].bytes = allocator.peak
          /\ \A j \in GetPtrCalls : calls[j].ptr = calls[i].ptr
    /\ \A d \in DOMAIN calls :
          calls[d].op = "destroy" =>
              /\ calls[d].released <=> (GetPtrCalls # {})
              /\ \A e \in DOMAIN calls : calls[e].op = "destroy" => e = d

\* getPtr() was called twice on an allocator with a positive peak, with a
\* failed allocation in between, and the allocator was destroyed.
C16_Witness ==
    /\ allocator.peak > 0
    /\ \E i, j, k, d \in DOMAIN calls :
          /\ i < j /\ j < k /\ k < d
          /\ calls[i].op = "getPtr"
          /\ calls[j].op = "alloc"
          /\ calls[k].op = "getPtr"
          /\ calls[d].op = "destroy" /\ calls[d].released

\* The allocator was destroyed without getPtr() having been called, and
\* nothing was released.
C16_WitnessNeverMaterialized ==
    /\ GetPtrCalls = {}
    /\ allocator.peak > 0
    /\ \E d \in DOMAIN calls : calls[d].op = "destroy" /\ ~calls[d].released

\* ---------------------------------------------------------------- C17
\* The sum of axis j over the first n shapes of ss.
RECURSIVE AxisTotal(_, _, _)
AxisTotal(ss, j, n) == IF n = 0 THEN 0 ELSE ss[n][j] + AxisTotal(ss, j, n - 1)

\* C17: a Concat constructed with dim d on inputs of equal rank whose axes
\* other than the concatenation axis all match gets inputs[0].shape with the
\* concatenation axis replaced by the sum of the inputs' sizes on it, where a
\* negative d stands for axis d + rank; if a rank or an axis other than the
\* concatenation axis differs, inference fails.
C17_ConcatInfer ==
    last.op = "concat" =>
        LET ss == last.args.shapes
            rank == Len(ss[1])
            d == last.args.dim
            axis == IF d < 0 THEN d + rank ELSE d
            agree == \A i \in DOMAIN ss :
                        /\ Len(ss[i]) = rank
                        /\ \A j \in 1..rank : j # axis + 1 => ss[i][j] = ss[1][j]
        IN  (d >= -rank /\ d < rank) =>
                /\ agree =>
                      /\ last.ok
                      /\ last.out = <<[j \in 1..rank |->
                                          IF j = axis + 1 THEN AxisTotal(ss, j, Len(ss))
                                          ELSE ss[1][j]]>>
                /\ ~agree => ~last.ok

\* Two inputs of rank 3 that differ only on the last axis were concatenated
\* with dim = -1, and inference returned.
C17_Witness ==
    /\ last.op = "concat"
    /\ last.ok
    /\ last.args.dim = -1
    /\ Len(last.args.shapes) = 2
    /\ Len(last.args.shapes[1]) = 3
    /\ last.args.shapes[1][3] # last.args.shapes[2][3]
    /\ last.args.shapes[1][1] > 1

\* Inference failed on inputs of equal rank that differ on an axis other than
\* the concatenation axis.
C17_WitnessFails ==
    /\ last.op = "concat"
    /\ ~last.ok
    /\ last.args.dim = 0
    /\ Len(last.args.shapes) = 2
    /\ Len(last.args.shapes[1]) = 2 /\ Len(last.args.shapes[2]) = 2
    /\ last.args.shapes[1][2] # last.args.shapes[2][2]

\* ---------------------------------------------------------------- C18
\* Shape S padded on the left with 1s to rank n.
PadLeft(S, n) == [j \in 1..n |-> IF j <= n - Len(S) THEN 1 ELSE S[j - (n - Len(S))]]

\* Right-aligned, every pair of dimensions is equal or has a 1.
Compatible(A, B) ==
    LET n == IF Len(A) >= Len(B) THEN Len(A) ELSE Len(B)
    IN  \A j \in 1..n :
            \/ PadLeft(A, n)[j] = PadLeft(B, n)[j]
            \/ PadLeft(A, n)[j] = 1
            \/ PadLeft(B, n)[j] = 1

\* The broadcast of compatible shapes: the larger dimension of every pair.
Broadcast(A, B) ==
    LET n == IF Len(A) >= Len(B) THEN Len(A) ELSE Len(B)
    IN  [j \in 1..n |-> IF PadLeft(A, n)[j] >= PadLeft(B, n)[j]
                         THEN PadLeft(A, n)[j] ELSE PadLeft(B, n)[j]]

\* The MatMul contract on inputs A, B of rank 2 or more.
MatmulContract(A, B, transA, transB, ok, out) ==
    LET ra == Len(A)
        rb == Len(B)
        mA == IF transA THEN A[ra] ELSE A[ra - 1]
        kA == IF transA THEN A[ra - 1] ELSE A[ra]
        kB == IF transB THEN B[rb] ELSE B[rb - 1]
        nB == IF transB THEN B[rb - 1] ELSE B[rb]
        batchA == SubSeq(A, 1, ra - 2)
        batchB == SubSeq(B, 1, rb - 2)
    IN  /\ ok <=> (kA = kB /\ Compatible(batchA, batchB))
        /\ ok => out = <<Broadcast(batchA, batchB) \o <<mA, nB>>>>

\* C18: for A and B of rank 2 or more MatMul inference succeeds exactly when
\* kA = kB and the batch axes are broadcast-compatible, and the output shape is
\* broadcast(A[:-2], B[:-2]) followed by [mA, nB] (the last two axes of an
\* input swapped when its transposition flag is set); an input of rank below 2
\* makes inference fail.
C18_MatmulInfer ==
    last.op = "matmul" =>
        LET A == last.args.shapes[1]
            B == last.args.shapes[2]
        IN  IF Len(A) >= 2 /\ Len(B) >= 2
            THEN MatmulContract(A, B, last.args.transA, last.args.transB, last.ok, last.out)
            ELSE ~last.ok

\* The part of C18 about inputs of rank 2 or more.
C18_RankTwoOrMore ==
    (last.op = "matmul" /\ Len(last.args.shapes[1]) >= 2 /\ Len(last.args.shapes[2]) >= 2) =>
        MatmulContract(last.args.shapes[1], last.args.shapes[2],
                       last.args.transA, last.args.transB, last.ok, last.out)

\* Inference returned on a transposed A of rank 3 and a B of rank 2 with
\* different m, k and n.
C18_RankTwoOrMoreReached ==
    /\ last.op = "matmul"
    /\ last.ok
    /\ last.args.transA /\ ~last.args.transB
    /\ Len(last.args.shapes[1]) = 3 /\ Len(last.args.shapes[2]) = 2
    /\ last.args.shapes[1][1] > 1
    /\ last.out[1][2] # last.out[1][3]
    /\ last.args.shapes[1][2] # last.args.shapes[1][3]

\* ---------------------------------------------------------------- C19
\* infer_broadcast was applied to A and B.
Broadcasted(A, B) ==
    last.op = "broadcast" /\ last.args.shapes[1] = A /\ last.args.shapes[2] = B

\* C19 as stated: for every shape S of rank 0 and more with positive axes,
\* broadcast(S, S) = S and broadcast(S, [1]) = S.
C19_BroadcastIdentity ==
    \A S \in InferShapes :
        /\ Broadcasted(S, S) => (last.ok /\ last.out = S)
        /\ Broadcasted(S, <<1>>) => (last.ok /\ last.out = S)

\* C19: for every shape S with positive axes broadcast(S, S) = S, and
\* broadcast(S, [1]) = S when S has rank 1 or more; for the shape of rank 0
\* broadcast(S, [1]) = [1].
C19_BroadcastIdentityRanked ==
    \A S \in InferShapes :
        /\ Broadcasted(S, S) => (last.ok /\ last.out = S)
        /\ Broadcasted(S, <<1>>) =>
              (last.ok /\ last.out = IF Len(S) >= 1 THEN S ELSE <<1>>)

\* A shape of rank 3 with different dimensions above 1 was broadcast with [1].
C19_Witness ==
    \E S \in InferShapes :
        /\ Len(S) = 3 /\ S[1] > 1 /\ S[2] > S[1] /\ S[3] = 1
        /\ Broadcasted(S, <<1>>)

\* The shape of rank 0 was broadcast with itself.
C19_WitnessRankZero == Broadcasted(<<>>, <<>>) /\ last.ok

\* ---------------------------------------------------------------- C20
\* C20: after every add_tensor(shape, dtype), add_tensor(existing) and add_op
\* that returned, no two entries of graph.tensors have the same fuid.
C20_FuidsUnique == pc = "idle" => UniqueFuids

\* ---------------------------------------------------------------- C21
\* The least multiple of the alignment that is at least size.
LeastMultiple(size) ==
    CHOOSE m \in size..(size + Alignment) :
        /\ m % Alignment = 0
        /\ \A n \in size..(size + Alignment) : n % Alignment = 0 => m <= n

\* The step is an alloc that returned.
AllocReturned ==
    /\ Len(calls') = Len(calls) + 1
    /\ calls'[Len(calls')].op = "alloc"
    /\ calls'[Len(calls')].ok

\* C21: when free_blocks holds a block of at least the aligned request, alloc
\* returns the start of the lowest such block and leaves peak alone; only when
\* no block fits it returns the old peak and grows peak by the aligned size.
C21_FirstFit ==
    [][AllocReturned =>
          LET c == calls'[Len(calls')]
              aligned == LeastMultiple(c.size)
              fits == {b \in DOMAIN allocator.free_blocks :
                          allocator.free_blocks[b] >= aligned}
          IN  IF fits # {}
              THEN /\ c.addr \in fits
                   /\ \A b \in fits : c.addr <= b
                   /\ allocator'.peak = allocator.peak
              ELSE /\ c.addr = allocator.peak
                   /\ allocator'.peak = allocator.peak + aligned]_vars

\* The last call was an alloc(8) served at offset 0 while a block further up
\* that is large enough and does not end at peak is still free.
C21_Witness ==
    /\ calls # <<>>
    /\ calls[Len(calls)].op = "alloc" /\ calls[Len(calls)].ok
    /\ calls[Len(calls)].size = 8 /\ calls[Len(calls)].addr = 0
    /\ \E b \in DOMAIN allocator.free_blocks :
          /\ b > 8
          /\ allocator.free_blocks[b] >= 8
          /\ b + allocator.free_blocks[b] < allocator.peak

\* ---------------------------------------------------------------- C22
\* C22: a remainder block is inserted only when it is not empty, so in every
\* reachable state every entry of free_blocks has a size above 0.
C22_NoEmptyBlocks ==
    \A b \in DOMAIN allocator.free_blocks : allocator.free_blocks[b] > 0

\* The same for requests of positive size only: an empty entry can then only
\* be the remainder of an exact fit.
C22_NoEmptyRemainder == PositiveSizes => C22_NoEmptyBlocks

\* ---------------------------------------------------------------- C23
\* C23 as stated: for every request size in the range of size_t, 0 and the
\* sizes within alignment - 1 of the maximum included, the size reserved is the
\* least multiple of the alignment that is at least size.
C23_RoundsUpEverywhere ==
    last.op = "aligned" =>
        /\ last.out % Alignment = 0
        /\ last.out >= last.size
        /\ last.out < last.size + Alignment

\* C23: for every request size from 0 up to the largest multiple of the
\* alignment in the range of size_t the size reserved is the least multiple of
\* the alignment that is at least size; for the sizes above it, which are
\* within alignment - 1 of the maximum, the wrapping computation yields 0.
C23_RoundsUpOrWraps ==
    last.op = "aligned" =>
        IF last.size <= SizeT - Alignment
        THEN last.out = LeastMultiple(last.size)
        ELSE last.out = 0

\* A size just below the largest multiple of the alignment was rounded up to
\* that multiple.
C23_Witness ==
    /\ last.op = "aligned"
    /\ last.size = SizeT - Alignment - 3
    /\ last.out = SizeT - Alignment

\* A size above the largest multiple of the alignment was rounded.
C23_WitnessWraps == last.op = "aligned" /\ last.size = SizeT - 1

\* ---------------------------------------------------------------- C24
\* C24: after MatMul shape inference succeeded the operator's cached
\* (m, n, k) equal (mA, nB, kA) derived from the input shapes and the
\* transposition flags.
C24_MatmulCachesMNK ==
    (/\ last.op = "matmul"
     /\ last.ok
     /\ Len(last.args.shapes[1]) >= 2
     /\ Len(last.args.shapes[2]) >= 2) =>
        LET A == last.args.shapes[1]
            B == last.args.shapes[2]
            mA == IF last.args.transA THEN A[Len(A)] ELSE A[Len(A) - 1]
            kA == IF last.args.transA THEN A[Len(A) - 1] ELSE A[Len(A)]
            nB == IF last.args.transB THEN B[Len(B) - 1] ELSE B[Len(B)]
        IN  last.mnk = <<mA, nB, kA>>

\* ---------------------------------------------------------------- C25
\* C25: in every state reached by interleaving add_tensor, add_op, topo_sort,
\* shape_infer and optimize, graph.ops is in topological order whenever the
\* sorted flag is set; add_op clears the flag, so a topo_sort() after further
\* construction sorts again.
C25_SortedFlagMeansOrdered ==
    /\ [](sorted => TopoOrdered)
    /\ [][Len(ops') > Len(ops) => ~sorted']_vars

\* optimize() has rewritten a graph whose flag was set by a topo_sort(), and
\* the flag is still set.
C25_Witness ==
    /\ sorted
    /\ Returned("optimize")
    /\ pre.set
    /\ Len(ops) < Len(pre.ops)
    /\ Len(ops) >= 1


\* ---------------------------------------------------------------- C26
\* The position of x in the list s.
PosIn(s, x) == CHOOSE i \in DOMAIN s : s[i] = x

SetMax(S) == CHOOSE m \in S : \A n \in S : n <= m

\* The pass of topo_sort() over the original list pre.ops in which operator o
\* is placed: the first pass, if it has no producer; else the pass of a
\* producer that stands before it, the pass after that of a producer that
\* stands behind it, whichever is latest.
RECURSIVE PassOf(_)
PassOf(o) ==
    IF DependsOn(o) = {} THEN 1
    ELSE SetMax({IF PosIn(pre.ops, p) < PosIn(pre.ops, o) THEN PassOf(p) ELSE PassOf(p) + 1 :
                    p \in DependsOn(o)})

\* topo_sort() returned true on the list pre.ops.
Sorted == Returned("topo_sort") /\ last.ok /\ pre.set

\* C26 as stated: whenever two operators are both ready at the same point of
\* the sort, the one that is earlier in the original graph.ops is placed
\* first; so an operator placed behind a later one was not ready (a producer
\* of its inputs was not placed yet) when the later one was placed.
C26_TiesOnOriginalOrder ==
    Sorted =>
        \A a, b \in SeqToSet(ops) :
            (PosIn(pre.ops, a) < PosIn(pre.ops, b) /\ PosIn(ops, b) < PosIn(ops, a)) =>
                \E p \in DependsOn(a) : PosIn(ops, p) >= PosIn(ops, b)

\* C26: topo_sort() places the operators pass by pass over the original
\* graph.ops, an operator in the first pass in which every producer of its
\* inputs is placed when the scan reaches it, and the operators of one pass in
\* their original order.
C26_PassThenOriginalOrder ==
    Sorted =>
        \A a, b \in SeqToSet(ops) :
            a # b =>
                (PosIn(ops, a) < PosIn(ops, b) <=>
                    \/ PassOf(a) < PassOf(b)
                    \/ PassOf(a) = PassOf(b) /\ PosIn(pre.ops, a) < PosIn(pre.ops, b))

\* topo_sort() placed an operator behind a later one although its producer
\* was already placed: it became ready after the scan had passed it.
C26_Witness ==
    /\ Sorted
    /\ \E a, b \in SeqToSet(ops) :
          /\ PosIn(pre.ops, a) < PosIn(pre.ops, b)
          /\ PosIn(ops, b) < PosIn(ops, a)
          /\ DependsOn(a) # {}
          /\ \A p \in DependsOn(a) : PosIn(ops, p) < PosIn(ops, b)

\* ---------------------------------------------------------------- C27
\* C27: whenever optimize() returns, the graph holds no match of rule T1 (an
\* inverse Transpose pair whose intermediate tensor has exactly one consumer)
\* and no match of rule T2 (a MatMul input produced by a last-two-axes-swap
\* Transpose whose output has exactly one consumer).
C27_FixedPoint ==
    Returned("optimize") =>
        \A op \in SeqToSet(ops) :
            /\ ~T1Pattern(opObj, tensorObj, op)
            /\ \A k \in {1, 2} : ~T2Pattern(opObj, tensorObj, op, k)

\* optimize() returned after two passes that each fused a Transpose into the
\* same MatMul: both of its flags differ from those at the call.
C27_Witness ==
    /\ Returned("optimize")
    /\ pre.set
    /\ \E i \in DOMAIN ops :
          /\ opObj[ops[i]].kind = "MatMul"
          /\ opObj[ops[i]].transA # pre.opObj[ops[i]].transA
          /\ opObj[ops[i]].transB # pre.opObj[ops[i]].transB

\* ---------------------------------------------------------------- C28
\* Outputs of a Transpose still in graph.ops that have a number of consumers
\* other than one.
SharedTransposeOutputs ==
    {t \in SeqToSet(tensors) :
        /\ FromTranspose(t)
        /\ getSource(t) \in SeqToSet(ops)
        /\ Len(getTargets(t)) # 1}

\* The output of the second transpose of the pair that the next pass cancels
\* (rule T1), if the next pass cancels one.
CancelledPairOutput ==
    IF Hits # {} /\ RuleAt(ops[MinOf(Hits)]) = "T1"
    THEN {opObj[ops[MinOf(Hits)]].outputs[1]}
    ELSE {}

\* C28: a pass of optimize() never removes a Transpose whose output has a
\* number of consumers other than one, nor that output: the tensor stays in
\* graph.tensors with its source and its targets unchanged.
C28_SharedOutputsUntouched ==
    [][pc = "body" =>
         \A t \in SharedTransposeOutputs :
             /\ getSource(t) \in SeqToSet(ops')
             /\ t \in SeqToSet(tensors')
             /\ tensorObj'[t].source = tensorObj[t].source
             /\ tensorObj'[t].targets = tensorObj[t].targets]_vars

\* The same, for an output that has two or more consumers only.
C28_MultiConsumerOutputsUntouched ==
    [][pc = "body" =>
         \A t \in SharedTransposeOutputs :
             Len(getTargets(t)) >= 2 =>
                 /\ getSource(t) \in SeqToSet(ops')
                 /\ t \in SeqToSet(tensors')]_vars

\* C28 (amended): the same except for the second transpose of a pair that
\* rule T1 cancels and its output, which go whatever the number of consumers
\* of that output; every other such tensor stays in graph.tensors with its
\* source unchanged and keeps each of its consumers that stays in graph.ops.
C28_SharedOutputsExceptPairOutput ==
    [][pc = "body" =>
         \A t \in SharedTransposeOutputs \ CancelledPairOutput :
             /\ getSource(t) \in SeqToSet(ops')
             /\ t \in SeqToSet(tensors')
             /\ tensorObj'[t].source = tensorObj[t].source
             /\ \A o \in SeqToSet(getTargets(t)) :
                   o \in SeqToSet(ops') => o \in SeqToSet(tensorObj'[t].targets)]_vars

\* optimize() returned on a graph holding an inverse transpose pair whose
\* middle tensor has a second consumer: the pair is still there.
C28_Witness ==
    /\ Returned("optimize")
    /\ pre.set
    /\ \E i \in DOMAIN ops :
          LET op == ops[i]
          IN  /\ opObj[op].kind = "Transpose"
              /\ FromTranspose(opObj[op].inputs[1])
              /\ IsInverse(opObj[getSource(opObj[op].inputs[1])].perm, opObj[op].perm)
              /\ Len(getTargets(opObj[op].inputs[1])) >= 2
              /\ getSource(opObj[op].inputs[1]) \in SeqToSet(ops)
              /\ opObj[op].inputs[1] \in SeqToSet(tensors)

\* A pass of optimize() has run on a graph holding a MatMul input produced by
\* a last-two-axes Transpose and consumed twice: the Transpose is still there.
C28_WitnessMatmul ==
    /\ pc = "while"
    /\ pre.set
    /\ \E i \in DOMAIN ops : \E k \in {1, 2} :
          LET op == ops[i]
          IN  /\ opObj[op].kind = "MatMul"
              /\ FromTranspose(opObj[op].inputs[k])
              /\ isSwapLastTwo(opObj[getSource(opObj[op].inputs[k])].perm)
              /\ Len(getTargets(opObj[op].inputs[k])) >= 2
              /\ getSource(opObj[op].inputs[k]) \in SeqToSet(ops)

\* ---------------------------------------------------------------- C29
\* What a dataMalloc() called after the memory was materialized must leave:
\* the call fails, used and peak and every data binding are as before.
FailsWithoutReplanning ==
    /\ last' = Done("dataMalloc", FALSE)
    /\ allocator'.used = allocator.used
    /\ allocator'.peak = allocator.peak
    /\ \A t \in DOMAIN tensorObj : tensorObj'[t].data = tensorObj[t].data

RECURSIVE SumSizes(_)
SumSizes(f) ==
    IF DOMAIN f = {} THEN 0
    ELSE LET k == MinOf(DOMAIN f) IN f[k] + SumSizes(Erase(f, k))

\* Every entry of free_blocks lies inside [0, peak).
BlocksInsidePeak ==
    \A addr \in DOMAIN allocator.free_blocks :
        addr + allocator.free_blocks[addr] <= allocator.peak

\* used + sum of free block sizes = peak.
BytesConserved == allocator.used + SumSizes(allocator.free_blocks) = allocator.peak

\* C30: byte conservation: in every state reached by alloc calls and by free
\* calls that release outstanding allocations, used plus the sum of the sizes
\* in free_blocks equals peak, and every free block lies inside [0, peak).
C30_ByteConservation == BytesConserved /\ BlocksInsidePeak

\* The same when every request is for at least one byte.
C30_ByteConservationPositive == PositiveSizes => C30_ByteConservation

\* A block was freed in the middle and part of it was taken again: bytes are
\* in use, a free block is left, and peak covers both.
C30_Witness ==
    /\ allocator.used > 0
    /\ \E addr \in DOMAIN allocator.free_blocks : allocator.free_blocks[addr] > 0
    /\ \E i, j, k \in DOMAIN calls :
          /\ i < j /\ j < k
          /\ calls[i].op = "alloc" /\ calls[i].ok
          /\ calls[j].op = "free" /\ calls[j].ok /\ calls[j].of = i
          /\ calls[k].op = "alloc" /\ calls[k].ok /\ calls[k].addr = calls[i].addr

\* ---------------------------------------------------------------- C31
\* The bytes [addr, addr + size).
Range(addr, size) == addr..(addr + size - 1)

\* The bytes of the allocation made by call i: its offset and aligned size.
HeldRange(i) == Range(calls[i].addr, getAlignedSize(calls[i].size))

\* The bytes of the entry of free_blocks at addr.
FreeRange(addr) == Range(addr, allocator.free_blocks[addr])

\* C31: outstanding allocations never overlap: the ranges
\* [offset, offset + aligned size) of any two allocations not yet freed are
\* disjoint, and none of them intersects a block in free_blocks.
C31_NoOverlap ==
    /\ \A i, j \in Held : i # j => HeldRange(i) \cap HeldRange(j) = {}
    /\ \A i \in Held : \A addr \in DOMAIN allocator.free_blocks :
          HeldRange(i) \cap FreeRange(addr) = {}

\* Two allocations are held, one of them in a block that was freed before and
\* split, and a free block with bytes in it remains.
C31_Witness ==
    /\ \E i, j \in Held :
          /\ i # j
          /\ HeldRange(i) # {} /\ HeldRange(j) # {}
          /\ \E f \in DOMAIN calls :
                calls[f].op = "free" /\ calls[f].ok /\ f < j
                /\ calls[calls[f].of].addr = calls[j].addr
    /\ \E addr \in DOMAIN allocator.free_blocks : FreeRange(addr) # {}

\* ---------------------------------------------------------------- C32
\* Sequences s and t hold the same elements the same number of times.
IsPermutation(s, t) ==
    /\ Len(s) = Len(t)
    /\ \A x \in SeqToSet(s) \cup SeqToSet(t) : Count(s, x) = Count(t, x)

\* C32: a failed topo_sort() changes nothing: graph.ops holds the same
\* operators in the same order as before the call and the sorted flag is
\* still false; a successful topo_sort() leaves a permutation of the previous
\* graph.ops, no operator lost or duplicated.
C32_FailedSortChangesNothing ==
    (Returned("topo_sort") /\ pre.set) =>
        IF last.ok
        THEN IsPermutation(ops, pre.ops)
        ELSE ops = pre.ops /\ ~sorted

\* topo_sort() returned false after it had placed an operator in its local
\* vector: an operator without placed dependencies stands beside a cycle.
C32_Witness ==
    /\ Returned("topo_sort")
    /\ pre.set
    /\ ~last.ok
    /\ \E i \in DOMAIN ops : Ready(ops[i], {})

\* topo_sort() returned true and moved an operator of three.
C32_WitnessSorted ==
    /\ Returned("topo_sort")
    /\ pre.set
    /\ last.ok
    /\ Len(ops) = 3
    /\ ops # pre.ops

\* ---------------------------------------------------------------- C33
\* GraphObj::getOutputs() on the graph as it was at the call: the tensors
\* without targets.
OutputsAtCall ==
    {t \in SeqToSet(pre.tensors) : pre.tensorObj[t].targets = <<>>}

\* C33: optimize() preserves the graph's results: every tensor that is a
\* graph output before the call (empty targets) is still in graph.tensors
\* after the call, the unconsumed output of a cancelled transpose pair
\* included.  (A producer fused into a MatMul has an output with a target,
\* which is no graph output.)
C33_OutputsPreserved ==
    (Returned("optimize") /\ pre.set) =>
        \A t \in OutputsAtCall : t \in SeqToSet(tensors)

\* A pass of optimize() removes no tensor without targets other than the
\* output of the transpose pair it cancels.
C33_OnlyPairOutputLost ==
    [][pc = "body" =>
         \A t \in SeqToSet(tensors) \ CancelledPairOutput :
             getTargets(t) = <<>> => t \in SeqToSet(tensors')]_vars

====
